---------------------------- MODULE Spec2Model ----------------------------
(***************************************************************************)
(* A model of the article extractor (src/extractor.py) and of its batch    *)
(* endpoint (src/app.py).                                                  *)
(*                                                                         *)
(* Strings are sequences of tokens.  A token is one character (" ", "\n",  *)
(* "-", ...) or an atomic word whose character count TokLen gives ("END"   *)
(* has 3, "w60" stands for a 60-character word).  Concatenation is \o, so  *)
(* two strings are equal exactly when their token sequences are.           *)
(*                                                                         *)
(* A parsed document (a BeautifulSoup tree) is a sequence of nodes in      *)
(* document order.  A node is [tag, parent, text, cls]: parent is the      *)
(* index of the parent node (0: the soup itself), text the string directly *)
(* inside the node before its first child (<<>>: none), cls its class      *)
(* attribute.  A "#text" node is a bare string among its parent's children.*)
(***************************************************************************)
EXTENDS Integers, Sequences, FiniteSets, TLC

VARIABLES
    \* _emit_blocks (extractor.py 357-437): the tree walked and the locals
    soup, pos, lines, current_level, opened_body, emitted_any, emit_pc,
    introAt,
    \* _pick_best (323-330): its arguments and its result
    pick_a, pick_b, picked, pick_pc,
    \* extract_to_template (439-488): its argument, its locals, what the two
    \* extraction libraries returned, and its result
    url, final_url, raw_html, read_out, cand_read, tra_out, cand_tra, best,
    title, result, x_pc,
    \* extract (app.py 20-63): the request's urls field, the locals, the
    \* futures of the thread pool and what each worker thread is running
    raw_urls, urls, futures, running, results, body, b_pc,
    \* history: the calls in the order in which they completed
    finished

emitVars == <<soup, pos, lines, current_level, opened_body, emitted_any,
              emit_pc, introAt>>

pickVars == <<pick_a, pick_b, picked, pick_pc>>

extractVars == <<url, final_url, raw_html, read_out, cand_read, tra_out,
                 cand_tra, best, title, result, x_pc>>

batchVars == <<raw_urls, urls, futures, running, results, body, b_pc, finished>>

vars == <<emitVars, pickVars, extractVars, batchVars>>

-----------------------------------------------------------------------------
(* Bounds *)

\* top-level blocks of a tree handed to _emit_blocks
MaxBlocks == 2

\* top-level blocks of the body of a fetched page
MaxPageBlocks == 2

\* lines of the urls field of a request
MaxLines == 4

\* threads of the pool: min(8, max(2, os.cpu_count() or 2)) is at least 2
NumWorkers == 2

-----------------------------------------------------------------------------
(* Strings *)

SP == " "
NL == "\n"

\* characters str.strip() removes
IsSpace(c) == c \in {SP, NL, "\t"}

\* characters the regex [ \t\r\f\v]+ of _norm_ws matches (no "\n")
IsBlank(c) == c \in {SP, "\t"}

TokLen(c) == CASE c = "END" -> 3
               [] c = "BEGIN" -> 5
               [] c = "w60" -> 60
               [] c = "w50" -> 50
               [] OTHER -> 1

RECURSIVE StrLen(_)
StrLen(s) == IF s = <<>> THEN 0 ELSE TokLen(Head(s)) + StrLen(Tail(s))

RECURSIVE LStrip(_)
LStrip(s) == IF s # <<>> /\ IsSpace(Head(s)) THEN LStrip(Tail(s)) ELSE s

RECURSIVE RStrip(_)
RStrip(s) ==
    IF s # <<>> /\ IsSpace(s[Len(s)]) THEN RStrip(SubSeq(s, 1, Len(s) - 1))
    ELSE s

Strip(s) == RStrip(LStrip(s))

\* str.rstrip("\n")
RECURSIVE RStripNL(_)
RStripNL(s) ==
    IF s # <<>> /\ s[Len(s)] = NL THEN RStripNL(SubSeq(s, 1, Len(s) - 1))
    ELSE s

\* re.sub(r"[ \t\r\f\v]+", " ", s): every run of blanks becomes one space
RECURSIVE Collapse(_)
Collapse(s) ==
    IF s = <<>> THEN <<>>
    ELSE IF IsBlank(Head(s))
         THEN IF Tail(s) # <<>> /\ IsBlank(Head(Tail(s)))
              THEN Collapse(Tail(s))
              ELSE <<SP>> \o Collapse(Tail(s))
         ELSE <<Head(s)>> \o Collapse(Tail(s))

_norm_ws(s) == Strip(Collapse(s))

_text_len(s) == StrLen(Strip(s))

\* sep.join(parts)
RECURSIVE Join(_, _)
Join(parts, sep) ==
    IF parts = <<>> THEN <<>>
    ELSE IF Len(parts) = 1 THEN parts[1]
    ELSE parts[1] \o sep \o Join(Tail(parts), sep)

\* s.split("\n"): the pieces between newlines, "" included
RECURSIVE SplitNL(_)
SplitNL(s) ==
    IF \A i \in 1..Len(s) : s[i] # NL THEN <<s>>
    ELSE LET i == CHOOSE k \in 1..Len(s) :
                      s[k] = NL /\ \A j \in 1..(k - 1) : s[j] # NL
         IN  <<SubSeq(s, 1, i - 1)>> \o SplitNL(SubSeq(s, i + 1, Len(s)))

\* s.splitlines(): as split, but "" gives no line and a final newline no
\* empty last line
SplitLines(s) ==
    IF s = <<>> THEN <<>>
    ELSE IF s[Len(s)] = NL THEN SplitNL(SubSeq(s, 1, Len(s) - 1))
    ELSE SplitNL(s)

Digit == <<"1", "2", "3", "4", "5", "6", "7", "8", "9">>

\* str(i) for i >= 1
RECURSIVE Dec(_)
Dec(i) == IF i < 10 THEN <<Digit[i]>>
          ELSE Dec(i \div 10) \o <<IF i % 10 = 0 THEN "0" ELSE Digit[i % 10]>>

\* F applied to the value of v, v being evaluated once
Bind(v, F(_)) == CHOOSE y \in {F(x) : x \in {v}} : TRUE

\* map f over a sequence
MapSeq(s, F(_)) == [i \in 1..Len(s) |-> F(s[i])]

\* the concatenation of a sequence of sequences
RECURSIVE Flatten(_)
Flatten(ss) == IF ss = <<>> THEN <<>> ELSE Head(ss) \o Flatten(Tail(ss))

-----------------------------------------------------------------------------
(* Trees *)

Node(tag, parent, text) ==
    [tag |-> tag, parent |-> parent, text |-> text, cls |-> ""]

\* the indices 1..n satisfying P, ascending: document order
IdxSeq(n, P(_)) == SelectSeq([k \in 1..n |-> k], P)

RECURSIVE Anc(_, _)
Anc(t, i) == IF t[i].parent = 0 THEN {}
             ELSE {t[i].parent} \cup Anc(t, t[i].parent)

\* whether node j lies in the subtree of root (0: the whole soup)
InSub(t, root, j) == root = 0 \/ j = root \/ root \in Anc(t, j)

IsElement(t, j) == t[j].tag # "#text"

\* root.find_all(tags, recursive=True): the proper descendants with one of
\* the tags, in document order
find_all(t, root, tags) ==
    IdxSeq(Len(t), LAMBDA j : j # root /\ InSub(t, root, j) /\ t[j].tag \in tags)

\* root.find_all(tags, recursive=False): the direct children only
find_children(t, root, tags) ==
    IdxSeq(Len(t), LAMBDA j : t[j].parent = root /\ t[j].tag \in tags)

\* root.get_text(sep, strip): the strings of the subtree in document order,
\* each stripped and the empty ones dropped when strip is set, joined by sep
get_text(t, root, sep, strip) ==
    LET piece(j) == IF strip THEN Strip(t[j].text) ELSE t[j].text
        idx == IdxSeq(Len(t), LAMBDA j : InSub(t, root, j) /\ piece(j) # <<>>)
    IN  Join(MapSeq(idx, piece), sep)

-----------------------------------------------------------------------------
(* Block Emitter: ContentExtractor._emit_blocks *)

HeadingTags == {"h2", "h3", "h4", "h5"}

EmitTags == HeadingTags \cup
            {"p", "ul", "ol", "pre", "code", "blockquote", "table"}

\* name.upper()
Upper(tag) == CASE tag = "h2" -> "H2" [] tag = "h3" -> "H3"
                [] tag = "h4" -> "H4" [] tag = "h5" -> "H5"

BodyLine == <<"Body:">>
ErrorLine == <<"ERROR: content_not_found">>
\* BT stands for the backtick character (U+0060)
BT == "BT"

Fence == <<BT, BT, BT>>

\* f"{level_label}: {heading_text}"
HeadingLine(label, txt) == <<label, ":", SP>> \o txt

IntroLine == HeadingLine("H2", <<"Introduction">>)

\* the elements the loop of line 375 visits
Matched(t) == find_all(t, 0, EmitTags)

\* the local state of one walk
EmitStart == [lines |-> <<>>, current_level |-> "None",
              opened_body |-> FALSE, emitted_any |-> FALSE, introAt |-> <<>>]

\* open_body (365-370)
open_body(st, label, txt) ==
    [st EXCEPT !.lines = st.lines \o <<HeadingLine(label, txt), BodyLine>>,
               !.opened_body = TRUE,
               !.current_level = label]

\* mutant: the guard with one negation lost
NeedIntro_lost_not(st) == ~st.emitted_any /\ st.opened_body

\* the guard of line 386
NeedIntro(st) == ~st.emitted_any /\ ~st.opened_body

\* lines 386-388; introAt records the output position of each synthesized
\* section
OpenIntro(st) ==
    IF NeedIntro(st)
    THEN [open_body(st, "H2", <<"Introduction">>) EXCEPT
              !.emitted_any = TRUE,
              !.introAt = st.introAt \o <<Len(st.lines) + 1>>]
    ELSE st

\* lines 377-383
HeadingStep(st, t, el) ==
    LET txt == _norm_ws(get_text(t, el, <<SP>>, TRUE))
    IN  IF txt = <<>> THEN st
        ELSE [open_body(st, Upper(t[el].tag), txt) EXCEPT !.emitted_any = TRUE]

\* lines 390-393
ParagraphLines(t, el) ==
    LET x == _norm_ws(get_text(t, el, <<SP>>, TRUE))
    IN  IF x # <<>> THEN <<x>> ELSE <<>>

\* mutant: enumerate(..., start=2)
Bullet_from_two(name, i) == IF name = "ul" THEN <<"-">> ELSE Dec(i + 1) \o <<".">>

\* line 398
Bullet(name, i) == IF name = "ul" THEN <<"-">> ELSE Dec(i) \o <<".">>

\* lines 395-401
ListLines(t, el) ==
    LET lis == find_children(t, el, {"li"})
        one(i) == LET x == _norm_ws(get_text(t, lis[i], <<SP>>, TRUE))
                  IN  IF x # <<>> THEN <<Bullet(t[el].tag, i) \o <<SP>> \o x>>
                      ELSE <<>>
    IN  Flatten([i \in 1..Len(lis) |-> one(i)])

\* lines 403-409
QuoteLines(t, el) ==
    LET x == get_text(t, el, <<NL>>, TRUE)
        one(ln) == IF _norm_ws(ln) # <<>> THEN <<<<">", SP>> \o _norm_ws(ln)>>
                   ELSE <<>>
    IN  IF x # <<>> THEN Flatten(MapSeq(SplitLines(x), one)) ELSE <<>>

\* lines 411-416
PreLines(t, el) ==
    <<Fence>> \o SplitLines(RStripNL(get_text(t, el, <<NL>>, FALSE)))
              \o <<Fence>>

\* line 420
InsidePre(t, el) == t[el].parent # 0 /\ t[t[el].parent].tag = "pre"

\* lines 418-424
CodeLines(t, el) ==
    IF InsidePre(t, el) THEN <<>>
    ELSE LET x == get_text(t, el, <<SP>>, TRUE)
         IN  IF x # <<>> THEN <<<<BT>> \o x \o <<BT>>>> ELSE <<>>

\* _format_table (346-355)
_format_table(t, table) ==
    LET row(tr) ==
            LET cells == find_all(t, tr, {"th", "td"})
                txt(c) == _norm_ws(get_text(t, c, <<SP>>, TRUE))
            IN  IF cells # <<>>
                THEN <<Join(MapSeq(cells, txt), <<SP, "|", SP>>)>>
                ELSE <<>>
    IN  Flatten(MapSeq(find_all(t, table, {"tr"}), row))

\* lines 426-431
TableLines(t, el) ==
    LET rows == _format_table(t, el)
    IN  IF rows # <<>> THEN <<<<"[TABLE]">>>> \o rows \o <<<<"[/TABLE]">>>>
        ELSE <<>>

\* the lines one non-heading element appends (390-431)
ContentLines(t, el) ==
    CASE t[el].tag = "p" -> ParagraphLines(t, el)
      [] t[el].tag \in {"ul", "ol"} -> ListLines(t, el)
      [] t[el].tag = "blockquote" -> QuoteLines(t, el)
      [] t[el].tag = "pre" -> PreLines(t, el)
      [] t[el].tag = "code" -> CodeLines(t, el)
      [] t[el].tag = "table" -> TableLines(t, el)

\* one iteration of the loop of line 375 on element el
EmitStep(st, t, el) ==
    IF t[el].tag \in HeadingTags THEN HeadingStep(st, t, el)
    ELSE LET o == OpenIntro(st)
         IN  [o EXCEPT !.lines = o.lines \o ContentLines(t, el)]

\* lines 433-437
EmitResult(ls) == IF ls = <<>> THEN <<ErrorLine>> ELSE ls

RECURSIVE EmitFrom(_, _, _)
EmitFrom(st, t, els) ==
    IF els = <<>> THEN st ELSE EmitFrom(EmitStep(st, t, Head(els)), t, Tail(els))

\* the whole of _emit_blocks as a function of the tree
_emit_blocks(t) == EmitResult(EmitFrom(EmitStart, t, Matched(t)).lines)

-----------------------------------------------------------------------------
(* Tree surgery: decompose and replace_with *)

\* the tree without the nodes of S and their subtrees, the parents of the
\* rest re-indexed (Tag.decompose on every node of S)
Decompose(t, S) ==
    LET gone(j) == j \in S \/ Anc(t, j) \cap S # {}
        keep == IdxSeq(Len(t), LAMBDA j : ~gone(j))
        \* the new index of kept node j
        at(j) == Cardinality({k \in 1..j : ~gone(k)})
    IN  [i \in 1..Len(keep) |->
            [t[keep[i]] EXCEPT !.parent = IF @ = 0 THEN 0 ELSE at(@)]]

\* the subtree of node r as a tree of its own (r = 0: the whole tree)
Subtree(t, r) ==
    IF r = 0 THEN t
    ELSE LET sub == Decompose(t, {j \in DOMAIN t : ~InSub(t, r, j)})
         IN  [sub EXCEPT ![1].parent = 0]

\* _remove_scripts_styles (97-99)
_remove_scripts_styles(t) ==
    Decompose(t, {j \in DOMAIN t :
                     t[j].tag \in {"script", "style", "noscript", "template"}})

\* NOISE_PATTERNS.search / CAPTION_PATTERNS.search on a class attribute
NoiseHit(c) == c \in {"ad", "sidebar", "comment"}
CaptionHit(c) == c \in {"caption", "credit"}

\* _drop_noise (102-130): noise by attribute, then captions, then layout
\* landmarks
_drop_noise(t) ==
    LET byAttr(x) == Decompose(x, {j \in DOMAIN x : NoiseHit(x[j].cls)})
        captions(x) == Decompose(x, {j \in DOMAIN x : CaptionHit(x[j].cls)})
        layout(x) == Decompose(x, {j \in DOMAIN x :
                         x[j].tag \in {"header", "footer", "nav", "aside"}})
    IN  Bind(Bind(Bind(t, byAttr), captions), layout)

\* _apply_site_rules (206-212): SITE_RULES is empty, so no rule applies
_apply_site_rules(domain, t) == t

\* _unwrap_all_anchors (92-94): every outermost anchor becomes the string
\* a.get_text(" ", strip=True) among its parent's children (anchors inside
\* it are replaced after it left the tree, without effect)
_unwrap_all_anchors(t) ==
    LET isA(j) == t[j].tag = "a"
        outer == {j \in DOMAIN t : isA(j) /\ \A k \in Anc(t, j) : ~isA(k)}
        swapped == [j \in DOMAIN t |->
                       IF j \in outer
                       THEN [tag |-> "#text", parent |-> t[j].parent,
                             text |-> get_text(t, j, <<SP>>, TRUE), cls |-> ""]
                       ELSE t[j]]
    IN  Decompose(swapped, {j \in DOMAIN t : Anc(t, j) \cap outer # {}})

RECURSIVE Gcd(_, _)
Gcd(m, n) == IF n = 0 THEN m ELSE Gcd(n, m % n)

\* rationals, as [num, den] with den > 0
Rat(n, d) == [num |-> n, den |-> d]

\* the same rational in lowest terms
Lowest(x) == LET g == Gcd(x.num, x.den) IN Rat(x.num \div g, x.den \div g)
RatLess(x, y) == x.num * y.den < y.num * x.den
RatEq(x, y) == x.num * y.den = y.num * x.den

RECURSIVE SumLen(_, _)
SumLen(t, as) ==
    IF as = <<>> THEN 0
    ELSE StrLen(get_text(t, Head(as), <<SP>>, TRUE)) + SumLen(t, Tail(as))

\* _link_density (80-89)
_link_density(t) ==
    LET total_len == StrLen(get_text(t, 0, <<SP>>, TRUE))
        link_chars == SumLen(t, find_all(t, 0, {"a"}))
    IN  IF total_len = 0 THEN Rat(1, 1)
        ELSE IF link_chars > total_len THEN Rat(1, 1)
        ELSE Lowest(Rat(link_chars, total_len))

\* _has_headings (76-77)
_has_headings(t) == find_all(t, 0, HeadingTags) # <<>>

None == [name |-> "None"]

\* the shared tail of both generators (222-229 and 304-314): clean, unwrap,
\* flatten, score; pctWith / pctWithout are the score factors in percent
\* with and without headings
Candidate(name, ttl, tree, domain, pctWith, pctWithout) ==
    LET cleaned(x) ==
            _unwrap_all_anchors(
                _drop_noise(_apply_site_rules(domain, _remove_scripts_styles(x))))
        scored(sp) ==
            LET text == get_text(sp, 0, <<SP>>, TRUE)
                ld == _link_density(sp)
                pct == IF _has_headings(sp) THEN pctWith ELSE pctWithout
            IN  [name |-> name, title |-> ttl, soup |-> sp, text |-> text,
                 score |-> Lowest(Rat(StrLen(text) * (ld.den - ld.num) * pct,
                                      ld.den * 100))]
    IN  Bind(Bind(tree, cleaned), scored)

\* the minimum-content gate of line 324
MinTextLen == 50

\* max(candidates, key=score): the first of the greatest
MaxByScore(cs) ==
    IF Len(cs) = 2 /\ RatLess(cs[1].score, cs[2].score) THEN cs[2] ELSE cs[1]

\* mutant: ties go to the last candidate
_pick_best_last_wins(cand_a, cand_b) ==
    LET candidates == SelectSeq(<<cand_a, cand_b>>,
                          LAMBDA c : c # None /\ _text_len(c.text) > MinTextLen)
    IN  IF candidates = <<>> THEN (IF cand_a # None THEN cand_a ELSE cand_b)
        ELSE IF Len(candidates) = 2
                /\ ~RatLess(candidates[2].score, candidates[1].score)
             THEN candidates[2] ELSE candidates[1]

\* _pick_best (323-330)
_pick_best(cand_a, cand_b) ==
    LET candidates == SelectSeq(<<cand_a, cand_b>>,
                          LAMBDA c : c # None /\ _text_len(c.text) > MinTextLen)
    IN  IF candidates = <<>> THEN (IF cand_a # None THEN cand_a ELSE cand_b)
        ELSE MaxByScore(candidates)

\* _h1_title (340-344)
_h1_title(t) ==
    LET h1 == find_all(t, 0, {"h1"})
    IN  IF h1 # <<>> THEN _norm_ws(get_text(t, h1[1], <<SP>>, TRUE)) ELSE <<>>

\* _page_title (332-338) of a raw document
_page_title(raw) ==
    IF raw.has_title THEN _norm_ws(Strip(raw.title)) ELSE <<>>

\* x or y on strings
Or(x, y) == IF x # <<>> THEN x ELSE y

\* mutant: the title of the selected candidate instead of readability's
ResolveTitle_of_best(b, cr, page_title) ==
    Or(Or(Or(_h1_title(b.soup), b.title), page_title), <<>>)

\* line 476
ResolveTitle(b, cr, page_title) ==
    Or(Or(Or(_h1_title(b.soup), IF cr # None THEN cr.title ELSE <<>>),
          page_title),
       <<>>)

-----------------------------------------------------------------------------
(* Trees handed to the emitter: up to MaxBlocks top-level blocks *)

\* doc followed by one more top-level block (a sequence of nodes whose
\* parents are relative to the block, 0 being the top level)
AddBlock(doc, frag) ==
    doc \o [i \in 1..Len(frag) |->
               [frag[i] EXCEPT !.parent = IF @ = 0 THEN 0 ELSE @ + Len(doc)]]

EmitBlocks ==
    {<<Node("h2", 0, x)>> : x \in {<<>>, <<"x">>, <<"Introduction">>}}
    \cup {<<Node("h3", 0, <<"x">>)>>}
    \cup {<<Node("p", 0, x)>> : x \in {<<>>, <<"x">>, <<SP, "x", SP, SP, "y">>}}
    \cup {<<Node(l, 0, <<>>), Node("li", 1, x), Node("li", 1, y)>> :
             l \in {"ul", "ol"}, x \in {<<>>, <<"x">>}, y \in {<<>>, <<"y">>}}
    \cup {<<Node(l, 0, <<>>), Node("li", 1, <<"x">>), Node("ul", 2, <<>>),
            Node("li", 3, <<"y">>)>> : l \in {"ul", "ol"}}
    \cup {<<Node("pre", 0, <<"x", NL, SP, "y", NL>>)>>,
          <<Node("pre", 0, <<>>), Node("code", 1, <<"x">>)>>,
          <<Node("pre", 0, <<>>), Node("div", 1, <<>>), Node("code", 2, <<"x">>)>>}
    \cup {<<Node("code", 0, x)>> : x \in {<<>>, <<"x">>}}
    \cup {<<Node("blockquote", 0, <<"x", NL, SP, NL, "y">>)>>,
          <<Node("blockquote", 0, <<>>), Node("p", 1, <<"x">>)>>}
    \cup {<<Node("table", 0, <<>>)>>,
          <<Node("table", 0, <<>>), Node("tr", 1, <<>>)>>,
          <<Node("table", 0, <<>>), Node("tr", 1, <<>>), Node("th", 2, <<"x">>),
            Node("td", 2, <<"y">>)>>}
    \cup {<<Node("div", 0, <<"x">>)>>}

RECURSIVE DocsOf(_, _)
DocsOf(blocks, n) ==
    IF n = 0 THEN {<<>>}
    ELSE LET shorter == DocsOf(blocks, n - 1)
         IN  shorter \cup {AddBlock(d, b) : d \in shorter, b \in blocks}

EmitDocs == DocsOf(EmitBlocks, MaxBlocks)

-----------------------------------------------------------------------------
(* The walk of _emit_blocks, one loop iteration per step *)

\* the parts of the state a specification does not use stay at rest
EmitIdle ==
    /\ soup = <<>>
    /\ pos = 0
    /\ lines = <<>>
    /\ current_level = "None"
    /\ opened_body = FALSE
    /\ emitted_any = FALSE
    /\ introAt = <<>>
    /\ emit_pc = "idle"

PickIdle ==
    /\ pick_a = None
    /\ pick_b = None
    /\ picked = None
    /\ pick_pc = "idle"

NoLib == [fault |-> "none", tree |-> <<>>]

ExtractIdle ==
    /\ url = <<>>
    /\ final_url = <<>>
    /\ raw_html = [has_title |-> FALSE, title |-> <<>>, body |-> <<>>]
    /\ read_out = NoLib
    /\ cand_read = None
    /\ tra_out = NoLib
    /\ cand_tra = None
    /\ best = None
    /\ title = <<>>
    /\ result = <<>>
    /\ x_pc = "idle"

BatchIdle ==
    /\ raw_urls = <<>>
    /\ urls = <<>>
    /\ futures = <<>>
    /\ running = [w \in 1..NumWorkers |-> 0]
    /\ results = <<>>
    /\ body = <<>>
    /\ b_pc = "idle"
    /\ finished = <<>>

EmitInit ==
    /\ PickIdle
    /\ ExtractIdle
    /\ BatchIdle
    /\ soup \in EmitDocs
    /\ pos = 0
    /\ lines = EmitStart.lines
    /\ current_level = EmitStart.current_level
    /\ opened_body = EmitStart.opened_body
    /\ emitted_any = EmitStart.emitted_any
    /\ introAt = EmitStart.introAt
    /\ emit_pc = "walk"

EmitState == [lines |-> lines, current_level |-> current_level,
              opened_body |-> opened_body, emitted_any |-> emitted_any,
              introAt |-> introAt]

\* the element the loop is about to visit
Cur == Matched(soup)[pos + 1]

\* the loop has an element left, with one of the tags
At(tags) ==
    /\ emit_pc = "walk"
    /\ pos < Len(Matched(soup))
    /\ soup[Cur].tag \in tags

\* one iteration of the loop of line 375
Iterate ==
    /\ \E st \in {EmitStep(EmitState, soup, Cur)} :
           /\ lines' = st.lines
           /\ current_level' = st.current_level
           /\ opened_body' = st.opened_body
           /\ emitted_any' = st.emitted_any
           /\ introAt' = st.introAt
    /\ pos' = pos + 1
    /\ UNCHANGED <<soup, emit_pc, pickVars, extractVars, batchVars>>

VisitHeading ==
    /\ At(HeadingTags)
    /\ Iterate

VisitParagraph ==
    /\ At({"p"})
    /\ Iterate

VisitList ==
    /\ At({"ul", "ol"})
    /\ Iterate

VisitQuote ==
    /\ At({"blockquote"})
    /\ Iterate

VisitPre ==
    /\ At({"pre"})
    /\ Iterate

VisitCode ==
    /\ At({"code"})
    /\ Iterate

VisitTable ==
    /\ At({"table"})
    /\ Iterate

\* lines 433-437
EmitReturn ==
    /\ emit_pc = "walk"
    /\ pos = Len(Matched(soup))
    /\ lines' = EmitResult(lines)
    /\ emit_pc' = "done"
    /\ UNCHANGED <<soup, pos, current_level, opened_body, emitted_any, introAt,
                   pickVars, extractVars, batchVars>>

EmitNext ==
    \/ VisitHeading
    \/ VisitParagraph
    \/ VisitList
    \/ VisitQuote
    \/ VisitPre
    \/ VisitCode
    \/ VisitTable
    \/ EmitReturn

SpecEmit == EmitInit /\ [][EmitNext]_vars

-----------------------------------------------------------------------------
(* _pick_best on its own: any two candidates *)

PickTexts == {<<>>, <<"w50">>, <<SP, "w50", SP>>, <<"w50", "x">>, <<"w60">>}

PickScores == {Rat(0, 1), Rat(69, 1), Rat(6900, 100), Rat(5520, 100)}

PickCands(name) ==
    {None} \cup
    {[name |-> name, title |-> <<>>, soup |-> <<>>, text |-> x, score |-> sc] :
        x \in PickTexts, sc \in PickScores}

PickInit ==
    /\ EmitIdle
    /\ ExtractIdle
    /\ BatchIdle
    /\ pick_a \in PickCands("readability")
    /\ pick_b \in PickCands("trafilatura")
    /\ picked = None
    /\ pick_pc = "call"

PickBest ==
    /\ pick_pc = "call"
    /\ picked' = _pick_best(pick_a, pick_b)
    /\ pick_pc' = "done"
    /\ UNCHANGED <<pick_a, pick_b, emitVars, extractVars, batchVars>>

PickNext == PickBest

SpecPick == PickInit /\ [][PickNext]_vars

-----------------------------------------------------------------------------
(* extract_to_template, one step per call it makes *)

\* the blocks a fetched page is made of
PageBlocks ==
    {<<Node("h1", 0, x)>> : x \in {<<"Head">>, <<SP>>}}
    \cup {<<Node("h2", 0, <<"w60">>)>>}
    \cup {<<Node("p", 0, x)>> : x \in {<<"END">>, <<"w60">>}}
    \cup {<<Node("p", 0, <<"x">>), Node("a", 1, <<"w60">>)>>,
          <<Node("a", 0, <<"w60">>)>>,
          <<Node("script", 0, <<"w60">>)>>,
          <<[Node("p", 0, <<"w60">>) EXCEPT !.cls = "ad"]>>,
          <<Node("div", 0, <<"w60">>)>>}

PageTitles == {[has_title |-> FALSE, title |-> <<>>],
               [has_title |-> TRUE, title |-> <<SP>>],
               [has_title |-> TRUE, title |-> <<"Page", SP>>]}

RawDocs ==
    {[has_title |-> pt.has_title, title |-> pt.title, body |-> d] :
        pt \in PageTitles, d \in DocsOf(PageBlocks, MaxPageBlocks)}

Urls == {<<"u">>}

\* r.url after redirects, or the alternate version _prefer_alt_version chose
FinalUrls(u) == {<<"v">>}

\* the top-level nodes of a tree
TopLevel(t) == {j \in DOMAIN t : t[j].parent = 0}

\* a content region an extraction library may single out: the whole body or
\* one of its top-level blocks
Regions(t) == {Subtree(t, r) : r \in {0} \cup TopLevel(t)}

\* readability: Document(html).summary() and short_title(), or an exception
\* raised in the library, in the parser or in a cleaning step
ReadTitles == {<<>>, <<SP, "Short">>}

ReadOutcomes(raw) ==
    {[fault |-> "none", tree |-> r, title |-> st] :
        r \in Regions(raw.body), st \in ReadTitles}
    \cup {[fault |-> f, tree |-> <<>>, title |-> <<>>] : f \in {"extract", "clean"}}

\* the tag names of trafilatura's XML dialect
XmlTag(tag) == CASE tag \in HeadingTags -> "head"
                 [] tag = "blockquote" -> "quote"
                 [] tag \in {"ul", "ol"} -> "list"
                 [] tag = "li" -> "item"
                 [] OTHER -> tag

\* the string replacements of lines 274-279, on the parsed tree
MapXml(t) ==
    [j \in DOMAIN t |->
        [t[j] EXCEPT !.tag = CASE @ = "head" -> "h2"
                               [] @ = "quote" -> "blockquote"
                               [] @ = "list" -> "ul"
                               [] @ = "item" -> "li"
                               [] OTHER -> @]]

\* trafilatura.extract(..., output_format="xml"): a tree, None, or an
\* exception (247-267 turn every exception into xml = None)
XmlOutcomes(raw) ==
    {[kind |-> "xml", tree |-> [j \in DOMAIN r |-> [r[j] EXCEPT !.tag = XmlTag(@)]]] :
        r \in Regions(raw.body)}
    \cup {[kind |-> k, tree |-> <<>>] : k \in {"none", "raise"}}

\* trafilatura.extract(...) as plain text: the strings of a region, one per
\* line; None; or an exception
TextOutcomes(raw) ==
    {[kind |-> "text", txt |-> get_text(r, 0, <<NL>>, FALSE)] :
        r \in Regions(raw.body)}
    \cup {[kind |-> k, txt |-> <<>>] : k \in {"none", "raise"}}

\* lines 296-302: one p per non-empty normalized line
ParagraphSoup(txt) ==
    LET ls == SelectSeq(MapSeq(SplitLines(txt), _norm_ws), LAMBDA l : l # <<>>)
    IN  [i \in 1..Len(ls) |-> Node("p", 0, ls[i])]

ExtractInit ==
    /\ EmitIdle
    /\ PickIdle
    /\ BatchIdle
    /\ url \in Urls
    /\ final_url = <<>>
    /\ raw_html = [has_title |-> FALSE, title |-> <<>>, body |-> <<>>]
    /\ read_out = NoLib
    /\ cand_read = None
    /\ tra_out = NoLib
    /\ cand_tra = None
    /\ best = None
    /\ title = <<>>
    /\ result = <<>>
    /\ x_pc = "fetch"

\* f"BEGIN\nURL: {u}\nERROR: content_not_found ({name})\nEND"
FetchErrorEnvelope(u, name) ==
    Join(<<<<"BEGIN">>, <<"URL", ":", SP>> \o u,
           ErrorLine \o <<SP, "(", name, ")">>, <<"END">>>>, <<NL>>)

\* f"BEGIN\nURL: {final_url}\nERROR: content_not_found\nEND"
NotFoundEnvelope(u) ==
    Join(<<<<"BEGIN">>, <<"URL", ":", SP>> \o u, ErrorLine, <<"END">>>>, <<NL>>)

\* lines 485-488
Template(u, ttl, ls) ==
    Join(<<<<"BEGIN">>, <<"URL", ":", SP>> \o u,
           <<"Title", ":", SP>> \o (IF ttl # <<>> THEN ttl ELSE <<"(no title)">>)>>
         \o ls \o <<<<"END">>>>, <<NL>>)

\* lines 452-462: the page is fetched (and perhaps swapped for its
\* alternate version)
Fetch ==
    /\ x_pc = "fetch"
    /\ \E raw \in RawDocs, fu \in FinalUrls(url) :
           /\ raw_html' = raw
           /\ final_url' = fu
    /\ x_pc' = "readability"
    /\ UNCHANGED <<url, read_out, cand_read, tra_out, cand_tra, best, title,
                   result, emitVars, pickVars, batchVars>>

\* lines 452-455: the fetch raises
FetchFails ==
    /\ x_pc = "fetch"
    /\ \E e \in {"HTTPError", "Timeout"} :
           result' = FetchErrorEnvelope(url, e)
    /\ x_pc' = "done"
    /\ UNCHANGED <<url, final_url, raw_html, read_out, cand_read, tra_out,
                   cand_tra, best, title, emitVars, pickVars, batchVars>>

\* _readability_candidate (214-238)
_readability_candidate(out, domain) ==
    IF out.fault # "none" THEN None
    ELSE Candidate("readability", _norm_ws(out.title), out.tree, domain, 115, 100)

\* line 468
ReadabilityCandidate ==
    /\ x_pc = "readability"
    /\ \E out \in ReadOutcomes(raw_html) :
           /\ read_out' = [fault |-> out.fault, tree |-> out.tree]
           /\ cand_read' = _readability_candidate(out, final_url)
    /\ x_pc' = "trafilatura"
    /\ UNCHANGED <<url, final_url, raw_html, tra_out, cand_tra, best, title,
                   result, emitVars, pickVars, batchVars>>

\* line 271: xml and "<" in xml and "</" in xml
UsableXml(x) == x.kind = "xml" /\ x.tree # <<>>

\* _trafilatura_candidate (240-321): x and f are what the two library calls
\* did, late an exception in the parser or in a cleaning step (lines 280,
\* 304-309).  The result is [raised, cand, fault, tree].
_trafilatura_candidate(x, f, late, domain) ==
    LET thrown(why) == [raised |-> TRUE, cand |-> None, fault |-> why, tree |-> <<>>]
        made(tree) ==
            [raised |-> FALSE, fault |-> "none", tree |-> tree,
             cand |-> Candidate("trafilatura",
                                LET tt == find_all(tree, 0, {"title"})
                                IN  IF tt # <<>>
                                    THEN _norm_ws(get_text(tree, tt[1], <<SP>>, TRUE))
                                    ELSE <<>>,
                                tree, domain, 110, 92)]
    IN  IF UsableXml(x)
        THEN IF late # "none" THEN thrown(late) ELSE made(MapXml(x.tree))
        ELSE IF f.kind = "raise" THEN thrown("fallback")
        ELSE IF f.kind = "none" \/ f.txt = <<>>
             THEN [raised |-> FALSE, cand |-> None, tree |-> <<>>,
                   fault |-> IF x.kind = "raise" THEN "extract" ELSE "none"]
        ELSE IF late = "clean" THEN thrown(late)
        ELSE made(ParagraphSoup(f.txt))

\* what the two library calls and the later steps can do; a step the code
\* does not reach is left at "none"
TraScenarios(raw) ==
    {sc \in [x : XmlOutcomes(raw), f : TextOutcomes(raw),
             late : {"none", "parse", "clean"}] :
        /\ UsableXml(sc.x) => sc.f.kind = "none"
        /\ ~UsableXml(sc.x) => sc.late # "parse"
        /\ (~UsableXml(sc.x) /\ (sc.f.kind # "text" \/ sc.f.txt = <<>>))
              => sc.late = "none"}

\* line 469; nothing in extract_to_template catches what the generator raises
TrafilaturaCandidate ==
    /\ x_pc = "trafilatura"
    /\ \E sc \in TraScenarios(raw_html) :
         \E r \in {_trafilatura_candidate(sc.x, sc.f, sc.late, final_url)} :
           /\ tra_out' = [fault |-> r.fault, tree |-> r.tree]
           /\ cand_tra' = r.cand
           /\ x_pc' = IF r.raised THEN "raised" ELSE "select"
    /\ UNCHANGED <<url, final_url, raw_html, read_out, cand_read, best, title,
                   result, emitVars, pickVars, batchVars>>

\* bool(soup): bs4's Tag.__bool__ answers True for a tree without contents
SoupTruthy(t) == TRUE

\* lines 479-481
FinalCleanup(t) ==
    Bind(Bind(Bind(t, _remove_scripts_styles), _drop_noise), _unwrap_all_anchors)

\* lines 471-473: nothing to select
SelectNone ==
    /\ x_pc = "select"
    /\ \E b \in {_pick_best(cand_read, cand_tra)} :
           /\ b = None \/ ~SoupTruthy(b.soup)
           /\ best' = b
    /\ result' = NotFoundEnvelope(final_url)
    /\ x_pc' = "done"
    /\ UNCHANGED <<url, final_url, raw_html, read_out, cand_read, tra_out,
                   cand_tra, title, emitVars, pickVars, batchVars>>

\* lines 471-488: select, resolve the title, clean, emit, assemble
SelectAndEmit ==
    /\ x_pc = "select"
    /\ \E b \in {_pick_best(cand_read, cand_tra)} :
           /\ ~(b = None \/ ~SoupTruthy(b.soup))
           /\ \E ttl \in {ResolveTitle(b, cand_read, _page_title(raw_html))},
                 cleaned \in {FinalCleanup(b.soup)} :
                  /\ title' = ttl
                  /\ best' = [b EXCEPT !.soup = cleaned]
                  /\ result' = Template(final_url, ttl, _emit_blocks(cleaned))
    /\ x_pc' = "done"
    /\ UNCHANGED <<url, final_url, raw_html, read_out, cand_read, tra_out,
                   cand_tra, emitVars, pickVars, batchVars>>

ExtractNext ==
    \/ Fetch
    \/ FetchFails
    \/ ReadabilityCandidate
    \/ TrafilaturaCandidate
    \/ SelectNone
    \/ SelectAndEmit

SpecExtract == ExtractInit /\ [][ExtractNext]_vars

-----------------------------------------------------------------------------
(* The /extract endpoint: a batch of URLs on a thread pool *)

\* lines 37-45: strip every line, drop the blank ones, keep the first
\* occurrence of each
RECURSIVE Dedupe(_, _)
Dedupe(ls, seen) ==
    IF ls = <<>> THEN <<>>
    ELSE LET u == Strip(Head(ls))
         IN  IF u = <<>> \/ u \in seen THEN Dedupe(Tail(ls), seen)
             ELSE <<u>> \o Dedupe(Tail(ls), seen \cup {u})

NormalizeUrls(raw) == Dedupe(SplitLines(raw), {})

UrlLines == {<<>>, <<"a">>, <<SP, "a">>, <<"b">>, <<"c">>}

RECURSIVE SeqsUpTo(_, _)
SeqsUpTo(S, n) ==
    IF n = 0 THEN {<<>>}
    ELSE LET shorter == SeqsUpTo(S, n - 1)
         IN  shorter \cup {Append(q, x) : q \in shorter, x \in S}

\* the urls fields a request may carry: up to MaxLines lines
RawUrls == {Join(ls, <<NL>>) : ls \in SeqsUpTo(UrlLines, MaxLines)}

BatchInit ==
    /\ EmitIdle
    /\ PickIdle
    /\ ExtractIdle
    /\ raw_urls \in RawUrls
    /\ urls = <<>>
    /\ futures = <<>>
    /\ running = [w \in 1..NumWorkers |-> 0]
    /\ results = <<>>
    /\ body = <<>>
    /\ b_pc = "request"
    /\ finished = <<>>

\* lines 47-48
NoUrls ==
    /\ b_pc = "request"
    /\ NormalizeUrls(raw_urls) = <<>>
    /\ urls' = <<>>
    /\ body' = <<"ERROR: no_urls", NL>>
    /\ b_pc' = "done"
    /\ UNCHANGED <<raw_urls, futures, running, results, finished, emitVars,
                   pickVars, extractVars>>

\* lines 37-59: ex.map submits one future per URL, in order, at once
Submit ==
    /\ b_pc = "request"
    /\ NormalizeUrls(raw_urls) # <<>>
    /\ urls' = NormalizeUrls(raw_urls)
    /\ futures' = [i \in 1..Len(urls') |->
                       [state |-> "queued", how |-> "-", value |-> <<>>]]
    /\ b_pc' = "map"
    /\ UNCHANGED <<raw_urls, running, results, body, finished, emitVars,
                   pickVars, extractVars>>

\* an idle thread of the pool takes the oldest queued call
WorkerStart(w) ==
    /\ b_pc = "map"
    /\ running[w] = 0
    /\ \E i \in DOMAIN futures :
           /\ futures[i].state = "queued"
           /\ \A k \in 1..(i - 1) : futures[k].state # "queued"
           /\ futures' = [futures EXCEPT ![i].state = "running"]
           /\ running' = [running EXCEPT ![w] = i]
    /\ UNCHANGED <<finished, raw_urls, urls, results, body, b_pc, emitVars,
                   pickVars,
                   extractVars>>

\* what extract_to_template(u) may return: a full template or one of its
\* error envelopes
Returned(u) ==
    {Template(u, <<"T">>, <<IntroLine, BodyLine, <<"x">>>>),
     FetchErrorEnvelope(u, "HTTPError")}

\* line 56
ProcessError(u, name) == FetchErrorEnvelope(u, name)

\* process (52-54): extract_to_template returns
WorkerReturns(w) ==
    /\ b_pc = "map"
    /\ running[w] # 0
    /\ \E out \in Returned(urls[running[w]]) :
           futures' = [futures EXCEPT ![running[w]] =
                          [state |-> "done", how |-> "returned", value |-> out]]
    /\ running' = [running EXCEPT ![w] = 0]
    /\ finished' = Append(finished, running[w])
    /\ UNCHANGED <<raw_urls, urls, results, body, b_pc, emitVars, pickVars,
                   extractVars>>

\* process (55-56): extract_to_template raises, process returns the error
\* envelope
WorkerCatches(w) ==
    /\ b_pc = "map"
    /\ running[w] # 0
    /\ futures' = [futures EXCEPT ![running[w]] =
                      [state |-> "done", how |-> "raised",
                       value |-> ProcessError(urls[running[w]], "ValueError")]]
    /\ running' = [running EXCEPT ![w] = 0]
    /\ finished' = Append(finished, running[w])
    /\ UNCHANGED <<raw_urls, urls, results, body, b_pc, emitVars, pickVars,
                   extractVars>>

\* mutant: results taken as they complete (as_completed)
NextResult_as_completed(fs, n) ==
    {i \in DOMAIN fs : fs[i].state = "done"}

\* the iterator ex.map returns yields the results in the order of the calls:
\* after n results, that of call n + 1, once it is done
NextResult(fs, n) == {i \in {n + 1} : i <= Len(fs) /\ fs[i].state = "done"}

\* lines 59-60
Collect ==
    /\ b_pc = "map"
    /\ \E i \in NextResult(futures, Len(results)) :
           /\ results' = Append(results, futures[i].value)
           /\ futures' = [futures EXCEPT ![i].state = "taken"]
    /\ UNCHANGED <<finished, raw_urls, urls, running, body, b_pc, emitVars,
                   pickVars,
                   extractVars>>

\* lines 62-63: the pool has shut down, the body is assembled
Respond ==
    /\ b_pc = "map"
    /\ Len(results) = Len(urls)
    /\ \A w \in 1..NumWorkers : running[w] = 0
    /\ body' = Join(results, <<NL, NL>>) \o <<NL>>
    /\ b_pc' = "done"
    /\ UNCHANGED <<finished, raw_urls, urls, futures, running, results, emitVars,
                   pickVars,
                   extractVars>>

BatchNext ==
    \/ NoUrls
    \/ Submit
    \/ \E w \in 1..NumWorkers : WorkerStart(w)
    \/ \E w \in 1..NumWorkers : WorkerReturns(w)
    \/ \E w \in 1..NumWorkers : WorkerCatches(w)
    \/ Collect
    \/ Respond

SpecBatch == BatchInit /\ [][BatchNext]_vars

-----------------------------------------------------------------------------
(* Claims about the emitter, under SpecEmit *)

LevelLabels == {"H2", "H3", "H4", "H5"}

\* "<H2..H5>: text" with a non-empty text
IsHeadingLine(l) ==
    Len(l) >= 4 /\ l[1] \in LevelLabels /\ l[2] = ":" /\ l[3] = SP

\* C8: at every point of the walk and in its result, output other than the
\* single error line starts with a heading line followed by "Body:", and the
\* "H2: Introduction" section is synthesized at most once, as line 1 only
\* (so never after a real heading, which would already occupy line 1).
C8_HeadingOpensOutput ==
    /\ lines \notin {<<>>, <<ErrorLine>>} =>
           /\ Len(lines) >= 2
           /\ IsHeadingLine(lines[1])
           /\ lines[2] = BodyLine
    /\ introAt \in {<<>>, <<1>>}
    /\ introAt = <<1>> => lines[1] = IntroLine

\* a finished walk that synthesized the introduction, emitted content under
\* it and then met a real heading
C8_Witness ==
    /\ emit_pc = "done"
    /\ introAt = <<1>>
    /\ Len(lines) >= 5
    /\ ~IsHeadingLine(lines[3])
    /\ \E i \in 4..Len(lines) : IsHeadingLine(lines[i])

\* the step in which the loop visits a list
ListStep == At({"ul", "ol"}) /\ pos' = pos + 1

\* the lines that step appended, without the section header it may have
\* synthesized first
ListOut ==
    LET added == SubSeq(lines', Len(lines) + 1, Len(lines'))
    IN  IF Len(added) >= 2 /\ added[1] = IntroLine /\ added[2] = BodyLine
        THEN SubSeq(added, 3, Len(added))
        ELSE added

ItemPrefix(list, i) ==
    IF soup[list].tag = "ul" THEN <<"-", SP>> ELSE Dec(i) \o <<".", SP>>

HasPrefix(l, pre) == Len(l) >= Len(pre) /\ SubSeq(l, 1, Len(pre)) = pre

ItemText(li) == _norm_ws(get_text(soup, li, <<SP>>, TRUE))

\* C9 as stated: each visited list yields exactly one line per direct li
\* child, an ordered list's lines prefixed "1. ", "2. ", ..., "k. " in order
\* (an unordered list's "- ").
C9_OneLinePerItem ==
    [][ListStep =>
          LET lis == find_children(soup, Cur, {"li"})
          IN  /\ Len(ListOut) = Len(lis)
              /\ \A i \in 1..Len(lis) : HasPrefix(ListOut[i], ItemPrefix(Cur, i))
      ]_vars

\* C9 amended: each visited list yields one line per direct li child whose
\* normalized text is non-empty; an ordered list's line carries "i. " with i
\* the 1-based position of its li among all the direct li children (numbers
\* of empty items are skipped), an unordered list's line carries "- ".
C9_OneLinePerNonEmptyItem ==
    [][ListStep =>
          LET lis == find_children(soup, Cur, {"li"})
              full == SelectSeq([i \in 1..Len(lis) |-> i],
                                LAMBDA i : ItemText(lis[i]) # <<>>)
          IN  /\ Len(ListOut) = Len(full)
              /\ \A j \in 1..Len(full) :
                     ListOut[j] = ItemPrefix(Cur, full[j]) \o ItemText(lis[full[j]])
      ]_vars

\* an ordered list whose first item is empty has just been visited: its only
\* line is numbered 2
C9_Witness ==
    /\ pos >= 1
    /\ LET list == Matched(soup)[pos]
           lis == find_children(soup, list, {"li"})
       IN  /\ soup[list].tag = "ol"
           /\ Len(lis) = 2
           /\ ItemText(lis[1]) = <<>>
           /\ ItemText(lis[2]) # <<>>
           /\ lines[Len(lines)] = <<"2", ".", SP>> \o ItemText(lis[2])

IsItemLine(l) ==
    \/ HasPrefix(l, <<"-", SP>>)
    \/ \E i \in 1..9 : HasPrefix(l, Dec(i) \o <<".", SP>>)

\* the lists that do not lie inside an item of another list
OuterLists ==
    {l \in DOMAIN soup :
        /\ soup[l].tag \in {"ul", "ol"}
        /\ \A a \in Anc(soup, l) : soup[a].tag # "li"}

\* C10: a list nested in a list item is not walked on its own: the result
\* holds one list-item line per (non-empty) direct item of the outer lists
\* and none for the items of nested lists.
C10_NestedListNotWalked ==
    emit_pc = "done" =>
        Cardinality({i \in DOMAIN lines : IsItemLine(lines[i])})
          = Cardinality({li \in DOMAIN soup :
                             /\ soup[li].tag = "li"
                             /\ soup[li].parent \in OuterLists
                             /\ ItemText(li) # <<>>})

-----------------------------------------------------------------------------
(* Claims about _pick_best, under SpecPick *)

\* C2: _pick_best keeps the candidates that exist and whose stripped text
\* is longer than 50; with none left it returns cand_a if it exists, else
\* cand_b; otherwise the one left with the greater score, the first argument
\* on equal scores.  A candidate with text length 0 is never returned when
\* the other has a text longer than 50.
C2_PickBest ==
    pick_pc = "done" =>
        LET passes(c) == c # None /\ StrLen(Strip(c.text)) > 50
            empty(c) == c # None /\ StrLen(Strip(c.text)) = 0
            greater(x, y) == x.score.num * y.score.den > y.score.num * x.score.den
        IN  /\ (~passes(pick_a) /\ ~passes(pick_b)) =>
                   picked = IF pick_a # None THEN pick_a ELSE pick_b
            /\ (passes(pick_a) /\ ~passes(pick_b)) => picked = pick_a
            /\ (~passes(pick_a) /\ passes(pick_b)) => picked = pick_b
            /\ (passes(pick_a) /\ passes(pick_b)) =>
                   picked = IF greater(pick_b, pick_a) THEN pick_b ELSE pick_a
            /\ (empty(pick_a) /\ passes(pick_b)) => picked # pick_a
            /\ (empty(pick_b) /\ passes(pick_a)) => picked # pick_b

\* both candidates pass the gate with equal scores written differently, and
\* the first was returned
C2_Witness ==
    /\ pick_pc = "done"
    /\ pick_a # None /\ pick_b # None
    /\ StrLen(Strip(pick_a.text)) > 50 /\ StrLen(Strip(pick_b.text)) > 50
    /\ pick_a.score # pick_b.score
    /\ RatEq(pick_a.score, pick_b.score)
    /\ picked = pick_a

-----------------------------------------------------------------------------
(* Claims about extract_to_template, under SpecExtract *)

ResultLines == SplitNL(result)

Count(ls, l) == Cardinality({i \in DOMAIN ls : ls[i] = l})

\* C1: whatever happened, the returned string split on newlines has exactly
\* one "BEGIN" line, the first, and exactly one "END" line, the last.
C1_OneBeginOneEnd ==
    x_pc = "done" =>
        /\ ResultLines[1] = <<"BEGIN">>
        /\ ResultLines[Len(ResultLines)] = <<"END">>
        /\ Count(ResultLines, <<"BEGIN">>) = 1
        /\ Count(ResultLines, <<"END">>) = 1

\* the tree of a generator after cleaning and before the Anchor Unwrapper
BeforeUnwrap(tree) == _drop_noise(_remove_scripts_styles(tree))

\* C3: in both generators score = length(text) * (1 - link_density) (times
\* the heading factor), link_density being that of the tree before its
\* anchors were unwrapped; text wholly inside anchors scores 0.
C3_DensityBeforeUnwrap ==
    \A g \in {[cand |-> cand_read, out |-> read_out, with |-> 115, without |-> 100],
              [cand |-> cand_tra, out |-> tra_out, with |-> 110, without |-> 92]} :
        g.cand # None =>
            LET before == BeforeUnwrap(g.out.tree)
                ld == _link_density(before)
                pct == IF _has_headings(before) THEN g.with ELSE g.without
                linked == SumLen(before, find_all(before, 0, {"a"}))
            IN  /\ RatEq(g.cand.score,
                         Rat(StrLen(g.cand.text) * (ld.den - ld.num) * pct,
                             ld.den * 100))
                /\ (StrLen(g.cand.text) > 0 /\ linked >= StrLen(g.cand.text))
                       => g.cand.score.num = 0

\* C4: a failing step of a generator makes that generator return None, for
\* either generator, and extract_to_template goes on to the selection: it
\* never ends with the generator's exception.
C4_GeneratorFailureYieldsNone ==
    /\ x_pc # "raised"
    /\ read_out.fault # "none" => cand_read = None
    /\ tra_out.fault \in {"fallback", "parse", "clean"} => cand_tra = None

\* C5: an output with an "ERROR: content_not_found" line has no "Title: "
\* line: it is exactly BEGIN, the URL line, the error line, END.
C5_NoTitleWithError ==
    (x_pc = "done" /\ \E i \in DOMAIN ResultLines : HasPrefix(ResultLines[i], ErrorLine))
    =>  /\ Len(ResultLines) = 4
        /\ ResultLines[1] = <<"BEGIN">>
        /\ HasPrefix(ResultLines[2], <<"URL", ":", SP>>)
        /\ HasPrefix(ResultLines[3], ErrorLine)
        /\ ResultLines[4] = <<"END">>
        /\ \A i \in DOMAIN ResultLines : ~HasPrefix(ResultLines[i], <<"Title", ":", SP>>)

\* a candidate was selected and the template assembled
Selected == x_pc = "done" /\ best # None

\* C6: when a candidate is selected the text after "Title: " is the first
\* non-empty of: the normalized text of the first h1 of the selected tree,
\* the title of the readability candidate (empty when there is none) whoever
\* was selected, the title element of the raw document, "(no title)".
C6_TitlePriority ==
    Selected =>
        LET h1s == {j \in DOMAIN best.soup : best.soup[j].tag = "h1"}
            first == CHOOSE j \in h1s : \A k \in h1s : j <= k
            chain == << IF h1s = {} THEN <<>>
                        ELSE _norm_ws(get_text(best.soup, first, <<SP>>, TRUE)),
                        IF cand_read = None THEN <<>> ELSE cand_read.title,
                        IF raw_html.has_title THEN _norm_ws(raw_html.title) ELSE <<>>,
                        <<"(no title)">> >>
            chosen == chain[CHOOSE i \in 1..4 :
                              chain[i] # <<>> /\ \A k \in 1..(i - 1) : chain[k] = <<>>]
        IN  HasPrefix(result, <<"BEGIN", NL, "URL", ":", SP>> \o final_url
                              \o <<NL, "Title", ":", SP>> \o chosen \o <<NL>>)

\* the trafilatura candidate was selected, it has no h1, and the title
\* written is the one readability reported
C6_Witness ==
    /\ Selected
    /\ best.name = "trafilatura"
    /\ cand_read # None
    /\ cand_read.title # <<>>
    /\ \A j \in DOMAIN best.soup : best.soup[j].tag # "h1"
    /\ title = cand_read.title
    /\ raw_html.has_title

-----------------------------------------------------------------------------
(* Claims about the /extract endpoint, under SpecBatch *)

\* the stripped lines of the urls field
StrippedLines(raw) ==
    LET sl == SplitLines(raw) IN [i \in 1..Len(sl) |-> Strip(sl[i])]

\* the positions of the first occurrences of the non-blank lines among ls
FirstOccurrences(ls) ==
    {i \in DOMAIN ls : ls[i] # <<>> /\ \A k \in 1..(i - 1) : ls[k] # ls[i]}

DistinctOf(ls) ==
    LET IsFirst(k) == k \in FirstOccurrences(ls)
        at == IdxSeq(Len(ls), IsFirst)
    IN  [j \in 1..Len(at) |-> ls[at[j]]]

\* the distinct non-blank URLs of the urls field, by first occurrence
DistinctUrls(raw) == Bind(StrippedLines(raw), DistinctOf)

\* C7: whatever the interleaving of the worker threads and whether each
\* extraction returned or raised, the response body is the envelopes of the
\* distinct non-blank URLs of the request, one each, joined by blank lines in
\* the order of first occurrence; the envelope of a URL whose extraction
\* raised is the error envelope of that URL.
C7_OneEnvelopePerUrlInOrder ==
    b_pc = "done" =>
        \A exp \in {DistinctUrls(raw_urls)} :
            exp # <<>> =>
                /\ Len(futures) = Len(exp)
                /\ body = Join([j \in 1..Len(exp) |-> futures[j].value],
                               <<NL, NL>>) \o <<NL>>
                /\ \A j \in 1..Len(exp) :
                       /\ futures[j].how \in {"returned", "raised"}
                       /\ futures[j].how = "returned" =>
                              futures[j].value \in Returned(exp[j])
                       /\ futures[j].how = "raised" =>
                              futures[j].value = ProcessError(exp[j], "ValueError")

\* a duplicated URL among four lines, three calls on two threads, the second
\* call finished first and raised, the others returned
C7_Witness ==
    /\ b_pc = "done"
    /\ Len(urls) = 3
    /\ Len(SplitLines(raw_urls)) > 3
    /\ finished[1] = 2
    /\ futures[2].how = "raised"
    /\ futures[1].how = "returned"
    /\ futures[3].how = "returned"

-----------------------------------------------------------------------------
(* The emitter and code inside preformatted text, under SpecEmit *)

\* an inline-code line: text between two backticks (a fence is not one)
IsInlineCodeLine(l) ==
    Len(l) >= 3 /\ l # Fence /\ l[1] = BT /\ l[Len(l)] = BT

\* the code elements with text that lie in no preformatted block
CodeOutsidePre ==
    {c \in DOMAIN soup :
        /\ soup[c].tag = "code"
        /\ get_text(soup, c, <<SP>>, TRUE) # <<>>
        /\ \A a \in Anc(soup, c) : soup[a].tag # "pre"}

\* C11: code text is not emitted twice: a code element lying inside a
\* preformatted block yields no inline-code line of its own, so the result
\* holds one inline-code line per code element (with text) outside any
\* preformatted block and no other.
C11_CodeNotDoubleEmitted ==
    emit_pc = "done" =>
        Cardinality({i \in DOMAIN lines : IsInlineCodeLine(lines[i])})
          = Cardinality(CodeOutsidePre)

=============================================================================
